---- MODULE Spec2Model ----
(***************************************************************************)
(* Model of src/rt/cpp/vobject.h: the V<T, region_type, Base> template of  *)
(* the Verona runtime.  A managed type T is described by an entry of       *)
(* TypeTable (its base, its region type and which members it declares);    *)
(* the static descriptor V<T>::desc, the routing operator new overloads,   *)
(* the inert operator delete overloads, the deleted array forms and the    *)
(* gc_* trampolines are translated from the header.  The allocator, the    *)
(* region classes, Object::register_object and the Scheduler live in other *)
(* headers of the runtime and are modelled at their interface.             *)
(***************************************************************************)
EXTENDS Naturals, Sequences, FiniteSets, TLC

\* ---------------------------------------------------------------- bounds
\* Number of objects the program constructs.
MaxObjects == 2
\* Number of entries on the ObjectStack the collector hands to a trace call.
MaxStack == 1

\* ---------------------------------------------------------------- types
\* The null function pointer of a Descriptor field.
nullptr == <<>>

\* The threads of the program; each owns one allocator.
Threads == {"t1", "t2"}

\* The type declarations of the program, one per use of V<T, region_type, Base>.
\* `notified`/`finaliser` say how the name is declared in T: not at all, as
\* one member function, or as an overload set.  `trace` says whether T
\* declares its own trace (otherwise V::trace is found).  `size` is
\* sizeof(T), `vsize` is vsizeof<T>.
TypeTable ==
  [ Counter   |-> [Base |-> "Object", region_type |-> "Trace", size |-> 12, vsize |-> 16,
                   trace |-> TRUE,  finaliser |-> "none",   notified |-> "none",
                   trivially_destructible |-> TRUE],
    Slot      |-> [Base |-> "Object", region_type |-> "Arena", size |-> 12, vsize |-> 16,
                   trace |-> FALSE, finaliser |-> "none",   notified |-> "none",
                   trivially_destructible |-> TRUE],
    Watcher   |-> [Base |-> "Object", region_type |-> "Trace", size |-> 28, vsize |-> 32,
                   trace |-> TRUE,  finaliser |-> "member", notified |-> "overloaded",
                   trivially_destructible |-> FALSE],
    Actor     |-> [Base |-> "Cown",   region_type |-> "Cown",  size |-> 36, vsize |-> 40,
                   trace |-> TRUE,  finaliser |-> "none",   notified |-> "member",
                   trivially_destructible |-> FALSE],
    CownTrace |-> [Base |-> "Cown",   region_type |-> "Trace", size |-> 36, vsize |-> 40,
                   trace |-> TRUE,  finaliser |-> "none",   notified |-> "member",
                   trivially_destructible |-> TRUE],
    ObjCown   |-> [Base |-> "Object", region_type |-> "Cown",  size |-> 12, vsize |-> 16,
                   trace |-> TRUE,  finaliser |-> "none",   notified |-> "none",
                   trivially_destructible |-> TRUE],
    Other     |-> [Base |-> "Other",  region_type |-> "Cown",  size |-> 12, vsize |-> 16,
                   trace |-> TRUE,  finaliser |-> "none",   notified |-> "none",
                   trivially_destructible |-> TRUE] ]

Types == DOMAIN TypeTable

\* ------------------------------------------------- capability detection
\* decltype(&T::notified) is well formed only when the name denotes one
\* member function: the address of an overload set has no type, and the
\* substitution failure selects the false_type primary template.
has_notified(T) == TypeTable[T].notified = "member"

has_finaliser(T) == TypeTable[T].finaliser = "member"

has_destructor(T) == ~TypeTable[T].trivially_destructible

\* ------------------------------------------------------- well-formedness
is_same(a, b) == a = b

\* Variant: the second static_assert is missing.
WellFormed_first_only(T) ==
  IF is_same(TypeTable[T].Base, "Object")
    THEN TypeTable[T].region_type \in {"Trace", "Arena"}
    ELSE TypeTable[T].region_type = "Cown"
\* The two static_asserts of V.
WellFormed(T) ==
  /\ IF is_same(TypeTable[T].Base, "Object")
       THEN TypeTable[T].region_type = "Trace" \/ TypeTable[T].region_type = "Arena"
       ELSE TypeTable[T].region_type = "Cown"
  /\ is_same(TypeTable[T].Base, "Object") \/ is_same(TypeTable[T].Base, "Cown")

\* The managed types of the program: the declarations the build accepts.
Managed == {T \in Types : WellFormed(T)}

RegionClass(T) == TypeTable[T].region_type

vsizeof(T) == TypeTable[T].vsize

\* ------------------------------------------------------------ descriptor
\* V<T>::desc, the static constexpr Descriptor of T.
desc(T) ==
  [size       |-> vsizeof(T),
   trace      |-> <<"gc_trace", T>>,
   finalizer  |-> IF has_finaliser(T) THEN <<"gc_final", T>> ELSE nullptr,
   notified   |-> IF has_notified(T) THEN <<"gc_notified", T>> ELSE nullptr,
   destructor |-> IF has_destructor(T) THEN <<"gc_destructor", T>> ELSE nullptr]

\* &desc: the address of the static member of the instantiation V<T, ...>.
DescAddr(T) == <<"desc", T>>

\* Variant: desc is not constant-initialised; its storage is still zero when code runs.
StaticDescriptors_zeroed ==
  [a \in {DescAddr(T) : T \in Managed} |->
     [size |-> 0, trace |-> nullptr, finalizer |-> nullptr,
      notified |-> nullptr, destructor |-> nullptr]]
\* The static storage of the program image: one Descriptor per managed type,
\* constant-initialised (constexpr), so it holds its value before any code runs.
StaticDescriptors ==
  [a \in {DescAddr(T) : T \in Managed} |->
     desc(CHOOSE T \in Managed : DescAddr(T) = a)]

\* ----------------------------------------------------------------- state
VARIABLES
  descs,      \* static storage: descriptor address -> Descriptor
  heap,       \* the objects constructed so far, in order; an object's id is its index
  regionOf,   \* region subsystem: object id -> id of the region's first object, 0 if none
  cowns,      \* ownership subsystem: the ids registered by Object::register_object
  allocated,  \* allocator -> number of allocations it has served
  epoch,      \* Scheduler::alloc_epoch()
  last,       \* the operation performed by the last step
  ret,        \* the value that operation returned or left in its out-parameter
  ran         \* the calls that operation made: collaborators and user members

vars == <<descs, heap, regionOf, cowns, allocated, epoch, last, ret, ran>>

\* ThreadAlloc::get() on thread t.
ThreadAlloc == [t1 |-> "alloc_t1", t2 |-> "alloc_t2"]
Allocs == {ThreadAlloc[t] : t \in Threads}

Ids == 1..Len(heap)

\* The record of a step: the entry point, the static type, the calling thread
\* and the allocator handle where the entry point uses them, the parent
\* argument, the object acted on, whether the build accepts the form, and the
\* ObjectStack handed in.
Op(op, T, t, a, p, o, ok) ==
  [op |-> op, T |-> T, t |-> t, a |-> a, p |-> p, o |-> o, ok |-> ok, st |-> <<>>]

\* The ObjectStacks a collector may hand to a trace call: it has pushed the
\* first n objects.
InputStacks == {[i \in 1..n |-> i] : n \in {m \in 0..MaxStack : m <= Len(heap)}}

Init ==
  /\ descs = StaticDescriptors
  /\ heap = <<>>
  /\ regionOf = <<>>
  /\ cowns = {}
  /\ allocated = [a \in Allocs |-> 0]
  /\ epoch = "EPOCH_A"
  /\ last = Op("init", "none", "none", "none", 0, 0, TRUE)
  /\ ret = "none"
  /\ ran = <<>>

\* --------------------------------------------------------- collaborators
\* The object header written by the allocation: the descriptor reference and
\* the size of the storage.  T is the static type of the new-expression and f
\* the reference the user constructor stores (T keeps a reference to the
\* object it was built under, 0 if none).
Header(T, size, d, f) ==
  [T |-> T, desc |-> d, size |-> size, f |-> f]

\* Alloc::alloc<size>().
Alloc_alloc(a) == allocated' = [allocated EXCEPT ![a] = @ + 1]

\* RegionClass::create<size>(alloc, desc): a new region holding the new object.
RegionClass_create(T, size, a, d) ==
  /\ Alloc_alloc(a)
  /\ heap' = Append(heap, Header(T, size, d, 0))
  /\ regionOf' = Append(regionOf, Len(heap) + 1)
  /\ UNCHANGED cowns

\* RegionClass::alloc<size>(alloc, in, desc): a new object in the region of `in`.
RegionClass_alloc(T, size, a, in, d) ==
  /\ Alloc_alloc(a)
  /\ heap' = Append(heap, Header(T, size, d, in))
  /\ regionOf' = Append(regionOf, regionOf[in])
  /\ UNCHANGED cowns

\* Object::register_object(storage, desc), storage fresh from alloc.
Object_register_object(T, size, d) ==
  /\ heap' = Append(heap, Header(T, size, d, 0))
  /\ regionOf' = Append(regionOf, 0)
  /\ cowns' = cowns \cup {Len(heap) + 1}

\* The parents a parent-relative construction of T may name: objects of a
\* region of T's region class (the precondition of RegionClass::alloc).
Parents(T) ==
  {p \in Ids : regionOf[p] # 0 /\ RegionClass(heap[regionOf[p]].T) = RegionClass(T)}

\* ------------------------------------------------------- allocation path
\* A form the build rejects: the program holding it does not exist, so the
\* attempt leaves every part of the run-time state as it was.
Rejected(op, T) ==
  /\ last' = Op(op, T, "none", "none", 0, 0, FALSE)
  /\ ret' = "ill-formed"
  /\ ran' = <<>>
  /\ UNCHANGED <<descs, heap, regionOf, cowns, allocated, epoch>>

Returned(op, T, t, a, p, calls) ==
  /\ last' = Op(op, T, t, a, p, Len(heap) + 1, TRUE)
  /\ ret' = Len(heap) + 1
  /\ ran' = [i \in 1..Len(calls) |-> <<calls[i], T, Len(heap) + 1>>]
  /\ UNCHANGED <<descs, epoch>>

\* Variant: the size_t argument, sizeof(T), is used instead of desc.size.
desc_size_of_argument(T) == TypeTable[T].size
\* desc.size, the template argument of create/alloc.
desc_size(T) == desc(T).size

\* void* operator new(size_t)
OperatorNew(t, T) ==
  IF WellFormed(T)
    THEN /\ Len(heap) < MaxObjects
         /\ IF is_same(TypeTable[T].Base, "Object")
              THEN /\ RegionClass_create(T, desc_size(T), ThreadAlloc[t], DescAddr(T))
                   /\ Returned("new", T, t, "none", 0,
                               <<"ThreadAlloc::get", "RegionClass::create">>)
              ELSE /\ Alloc_alloc(ThreadAlloc[t])
                   /\ Object_register_object(T, desc_size(T), DescAddr(T))
                   /\ Returned("new", T, t, "none", 0,
                               <<"ThreadAlloc::get", "Alloc::alloc", "Object::register_object">>)
    ELSE Rejected("new", T)

\* Variant: the branch on Base is missing.
OperatorNewAlloc_always_region(T, alloc) ==
  IF WellFormed(T)
    THEN /\ Len(heap) < MaxObjects
         /\ RegionClass_create(T, desc_size(T), alloc, DescAddr(T))
         /\ Returned("new_alloc", T, "none", alloc, 0, <<"RegionClass::create">>)
    ELSE Rejected("new_alloc", T)
\* void* operator new(size_t, Alloc* alloc)
OperatorNewAlloc(T, alloc) ==
  IF WellFormed(T)
    THEN /\ Len(heap) < MaxObjects
         /\ IF is_same(TypeTable[T].Base, "Object")
              THEN /\ RegionClass_create(T, desc_size(T), alloc, DescAddr(T))
                   /\ Returned("new_alloc", T, "none", alloc, 0, <<"RegionClass::create">>)
              ELSE /\ Alloc_alloc(alloc)
                   /\ Object_register_object(T, desc_size(T), DescAddr(T))
                   /\ Returned("new_alloc", T, "none", alloc, 0,
                               <<"Alloc::alloc", "Object::register_object">>)
    ELSE Rejected("new_alloc", T)

\* Variant: the static_assert on Base is missing.
OperatorNewRegion_no_assert(t, T, region) ==
  IF WellFormed(T)
    THEN /\ Len(heap) < MaxObjects
         /\ regionOf[region] # 0
         /\ RegionClass_alloc(T, desc_size(T), ThreadAlloc[t], region, DescAddr(T))
         /\ Returned("new_region", T, t, "none", region,
                     <<"ThreadAlloc::get", "RegionClass::alloc">>)
    ELSE Rejected("new_region", T)
\* void* operator new(size_t, Object* region)
OperatorNewRegion(t, T, region) ==
  IF WellFormed(T) /\ is_same(TypeTable[T].Base, "Object")
    THEN /\ Len(heap) < MaxObjects
         /\ region \in Parents(T)
         /\ RegionClass_alloc(T, desc_size(T), ThreadAlloc[t], region, DescAddr(T))
         /\ Returned("new_region", T, t, "none", region,
                     <<"ThreadAlloc::get", "RegionClass::alloc">>)
    ELSE Rejected("new_region", T)

\* Variant: create is called where alloc is meant.
OperatorNewAllocRegion_creates(T, alloc, region) ==
  IF WellFormed(T) /\ is_same(TypeTable[T].Base, "Object")
    THEN /\ Len(heap) < MaxObjects
         /\ region \in Parents(T)
         /\ RegionClass_create(T, desc_size(T), alloc, DescAddr(T))
         /\ Returned("new_alloc_region", T, "none", alloc, region, <<"RegionClass::create">>)
    ELSE Rejected("new_alloc_region", T)
\* void* operator new(size_t, Alloc* alloc, Object* region)
OperatorNewAllocRegion(T, alloc, region) ==
  IF WellFormed(T) /\ is_same(TypeTable[T].Base, "Object")
    THEN /\ Len(heap) < MaxObjects
         /\ region \in Parents(T)
         /\ RegionClass_alloc(T, desc_size(T), alloc, region, DescAddr(T))
         /\ Returned("new_alloc_region", T, "none", alloc, region, <<"RegionClass::alloc">>)
    ELSE Rejected("new_alloc_region", T)

\* void* operator new[](size_t) = delete
OperatorNewArray(T) == Rejected("new[]", T)

\* The five operator delete overloads; p is the pointer handed in and T its
\* static type.  Every body is empty.
DeleteForms == {"delete", "delete_sized", "delete_alloc", "delete_region",
                "delete_alloc_region"}

\* Variant: the body destroys and unregisters the object.
OperatorDelete_destroys(form, p) ==
  /\ form \in DeleteForms
  /\ last' = Op(form, heap[p].T, "none", "none", 0, 0, TRUE)
  /\ ret' = "void"
  /\ ran' = << <<"T::~T", heap[p].T, p>> >>
  /\ cowns' = cowns \ {p}
  /\ UNCHANGED <<descs, heap, regionOf, allocated, epoch>>
OperatorDelete(form, p) ==
  /\ form \in DeleteForms
  /\ last' = Op(form, heap[p].T, "none", "none", 0, 0, TRUE)
  /\ ret' = "void"
  /\ ran' = <<>>
  /\ UNCHANGED <<descs, heap, regionOf, cowns, allocated, epoch>>

\* void operator delete[](void*) = delete and its sized form.
OperatorDeleteArray(form, p) ==
  /\ form \in {"delete[]", "delete[]_sized"}
  /\ Rejected(form, heap[p].T)

\* ----------------------------------------------------------- trampolines
\* A call from a collaborator through a Descriptor field leaves the
\* allocation state alone.
Called(op, T, o, stack) ==
  /\ last' = [Op(op, T, "none", "none", 0, o, TRUE) EXCEPT !.st = stack]
  /\ UNCHANGED <<descs, heap, regionOf, cowns, allocated, epoch>>

\* T::trace(st) as the user types of the model write it: push the one
\* reference the object holds.
T_trace(o, stack) == IF heap[o].f # 0 THEN Append(stack, heap[o].f) ELSE stack

\* void trace(ObjectStack&) {} of V, found when T declares no trace.
V_trace(o, stack) == stack

\* Variant: the downcast to T is missing, so V::trace is called.
gc_trace_base_only(T, o, stack) ==
  /\ ret' = V_trace(o, stack)
  /\ ran' = << <<"V::trace", T, o>> >>
  /\ Called("gc_trace", T, o, stack)
\* static void gc_trace(const Object* o, ObjectStack& st)
gc_trace(T, o, stack) ==
  /\ IF TypeTable[T].trace
       THEN /\ ret' = T_trace(o, stack)
            /\ ran' = << <<"T::trace", T, o>> >>
       ELSE /\ ret' = V_trace(o, stack)
            /\ ran' = << <<"V::trace", T, o>> >>
  /\ Called("gc_trace", T, o, stack)

\* static void gc_notified(Object* o)
gc_notified(T, o) ==
  /\ ran' = IF has_notified(T) THEN << <<"T::notified", T, o>> >> ELSE <<>>
  /\ ret' = "void"
  /\ Called("gc_notified", T, o, <<>>)

\* static void gc_final(Object* o, Object* region, ObjectStack& sub_regions)
gc_final(T, o) ==
  /\ ran' = IF has_finaliser(T) THEN << <<"T::finaliser", T, o>> >> ELSE <<>>
  /\ ret' = "void"
  /\ Called("gc_final", T, o, <<>>)

\* static void gc_destructor(Object* o)
gc_destructor(T, o) ==
  /\ ran' = << <<"T::~T", T, o>> >>
  /\ ret' = "void"
  /\ Called("gc_destructor", T, o, <<>>)

\* The collector, the region teardown and the cown workers reach the
\* trampolines only through the Descriptor of the object, and skip a null field.
Field(o, field) == descs[heap[o].desc][field]

CallTrace(o, stack) ==
  /\ Field(o, "trace") # nullptr
  /\ gc_trace(Field(o, "trace")[2], o, stack)

CallNotified(o) ==
  /\ Field(o, "notified") # nullptr
  /\ gc_notified(Field(o, "notified")[2], o)

CallFinalizer(o) ==
  /\ Field(o, "finalizer") # nullptr
  /\ gc_final(Field(o, "finalizer")[2], o)

CallDestructor(o) ==
  /\ Field(o, "destructor") # nullptr
  /\ gc_destructor(Field(o, "destructor")[2], o)

\* A reader (the collector, a cown worker) loads the Descriptor of T.
ReadDescriptor(T) ==
  /\ T \in Managed
  /\ last' = Op("read_desc", T, "none", "none", 0, 0, TRUE)
  /\ ret' = descs[DescAddr(T)]
  /\ ran' = <<>>
  /\ UNCHANGED <<descs, heap, regionOf, cowns, allocated, epoch>>

\* ----------------------------------------------------------------- epoch
\* Scheduler::alloc_epoch()
Scheduler_alloc_epoch == epoch

\* Variant: the query also moves the epoch.
get_alloc_epoch_advances ==
  /\ ret' = Scheduler_alloc_epoch
  /\ epoch' = IF epoch = "EPOCH_A" THEN "EPOCH_B" ELSE "EPOCH_A"
  /\ last' = Op("get_alloc_epoch", "none", "none", "none", 0, 0, TRUE)
  /\ ran' = << <<"Scheduler::alloc_epoch", "none", 0>> >>
  /\ UNCHANGED <<descs, heap, regionOf, cowns, allocated>>
\* static EpochMark get_alloc_epoch()
get_alloc_epoch ==
  /\ ret' = Scheduler_alloc_epoch
  /\ last' = Op("get_alloc_epoch", "none", "none", "none", 0, 0, TRUE)
  /\ ran' = << <<"Scheduler::alloc_epoch", "none", 0>> >>
  /\ UNCHANGED <<descs, heap, regionOf, cowns, allocated, epoch>>

\* The scheduler moves to its next allocation epoch.
SchedulerAdvance ==
  /\ epoch' = IF epoch = "EPOCH_A" THEN "EPOCH_B" ELSE "EPOCH_A"
  /\ last' = Op("advance_epoch", "none", "none", "none", 0, 0, TRUE)
  /\ ret' = "void"
  /\ ran' = <<>>
  /\ UNCHANGED <<descs, heap, regionOf, cowns, allocated>>

\* ------------------------------------------------------------------ next
Next ==
  \/ \E t \in Threads, T \in Types : OperatorNew(t, T)
  \/ \E T \in Types, a \in Allocs : OperatorNewAlloc(T, a)
  \/ \E t \in Threads, T \in Types, p \in Ids : OperatorNewRegion(t, T, p)
  \/ \E T \in Types, a \in Allocs, p \in Ids : OperatorNewAllocRegion(T, a, p)
  \/ \E T \in Types : OperatorNewArray(T)
  \/ \E f \in DeleteForms, p \in Ids : OperatorDelete(f, p)
  \/ \E f \in {"delete[]", "delete[]_sized"}, p \in Ids : OperatorDeleteArray(f, p)
  \/ \E o \in Ids, stack \in InputStacks : CallTrace(o, stack)
  \/ \E o \in Ids : CallNotified(o)
  \/ \E o \in Ids : CallFinalizer(o)
  \/ \E o \in Ids : CallDestructor(o)
  \/ \E T \in Types : ReadDescriptor(T)
  \/ get_alloc_epoch
  \/ SchedulerAdvance

Spec == Init /\ [][Next]_vars

\* ================================================================ claims
NewOps == {"new", "new_alloc", "new_region", "new_alloc_region"}
ParentOps == {"new_region", "new_alloc_region"}
ArrayOps == {"new[]", "delete[]", "delete[]_sized"}
TrampolineOps == {"gc_trace", "gc_notified", "gc_final", "gc_destructor"}

\* The regions that exist: the ids the region subsystem has handed out.
Regions(r) == {r[i] : i \in 1..Len(r)} \ {0}

Calls(r) == {r[i][1] : i \in 1..Len(r)}

\* T has a member named m (m is "notified" or "finaliser").
C1_HasMemberNamed(T, m) ==
  IF m = "notified" THEN TypeTable[T].notified # "none"
                    ELSE TypeTable[T].finaliser # "none"

\* C1: the Descriptor a reader loads for a managed type T has trace present,
\* finalizer absent exactly when T has no member named finaliser, notified
\* absent exactly when T has no member named notified, and destructor absent
\* exactly when T is trivially destructible.
C1_PresencePattern ==
  (last.op = "read_desc") =>
     /\ ret.trace # nullptr
     /\ (ret.finalizer = nullptr) <=> ~C1_HasMemberNamed(last.T, "finaliser")
     /\ (ret.notified = nullptr) <=> ~C1_HasMemberNamed(last.T, "notified")
     /\ (ret.destructor = nullptr) <=> TypeTable[last.T].trivially_destructible

\* C2: one Descriptor per managed type, no two managed types share one, every
\* object of type T refers to T's own Descriptor, and the size of its storage
\* is that Descriptor's size field, which is the footprint vsizeof<T>.
C2_OneDescriptorPerType ==
  /\ Cardinality(DOMAIN descs) = Cardinality(Managed)
  /\ \A T1, T2 \in Managed : T1 # T2 => DescAddr(T1) # DescAddr(T2)
  /\ \A o \in Ids :
       /\ heap[o].T \in Managed
       /\ heap[o].desc = DescAddr(heap[o].T)
       /\ heap[o].desc \in DOMAIN descs
       /\ descs[heap[o].desc].trace = <<"gc_trace", heap[o].T>>
       /\ heap[o].size = descs[heap[o].desc].size
       /\ heap[o].size = vsizeof(heap[o].T)

C2_Witness ==
  /\ Len(heap) = MaxObjects
  /\ \E o1, o2 \in Ids : heap[o1].T = "Counter" /\ heap[o2].T = "Slot"
  /\ last.op \in ParentOps

\* C3: a construction with no extra argument or with an allocator handle is
\* routed by the base alone.  A plain-object type gets a new region from its
\* region class and is not registered; an ownership-cell type gets storage
\* from the allocator, is registered, and is in no region.  The allocator is
\* the handle when one is given and the calling thread's otherwise.
C3_RoutedByBase ==
  [][(last'.op \in {"new", "new_alloc"} /\ last'.ok) =>
       LET o == last'.o
           a == IF last'.op = "new" THEN ThreadAlloc[last'.t] ELSE last'.a
       IN  /\ Len(heap') = Len(heap) + 1
           /\ o = Len(heap')
           /\ allocated' = [allocated EXCEPT ![a] = @ + 1]
           /\ IF TypeTable[last'.T].Base = "Object"
                THEN /\ regionOf'[o] = o
                     /\ Regions(regionOf') = Regions(regionOf) \cup {o}
                     /\ "RegionClass::create" \in Calls(ran')
                     /\ cowns' = cowns
                     /\ "Object::register_object" \notin Calls(ran')
                ELSE /\ regionOf'[o] = 0
                     /\ Regions(regionOf') = Regions(regionOf)
                     /\ cowns' = cowns \cup {o}
                     /\ "Alloc::alloc" \in Calls(ran')
                     /\ Calls(ran') \cap {"RegionClass::create", "RegionClass::alloc"} = {}
     ]_vars

C3_Witness ==
  /\ last.op = "new_alloc" /\ last.ok /\ last.T = "Actor"
  /\ last.a = "alloc_t2" /\ allocated["alloc_t2"] = 1
  /\ last.o \in cowns
  /\ \E i \in Ids : regionOf[i] = i

\* C4: a construction of a plain-object type with a parent argument puts the
\* new object in the region of that parent and creates no region; every object
\* built under a parent stays in the region of that parent.
C4_InParentRegion ==
  /\ (last.op \in ParentOps /\ last.ok) =>
       /\ last.p \in Ids /\ last.p # last.o
       /\ regionOf[last.o] = regionOf[last.p]
       /\ regionOf[last.o] # last.o
       /\ regionOf[last.o] # 0
       /\ last.o \notin cowns
       /\ "RegionClass::create" \notin Calls(ran)
  /\ \A o \in Ids : heap[o].f # 0 =>
       /\ regionOf[o] = regionOf[heap[o].f]
       /\ regionOf[o] \in 1..(o - 1)

C4_Witness ==
  /\ last.op = "new_alloc_region" /\ last.ok
  /\ Len(heap) = MaxObjects
  /\ regionOf[last.o] = regionOf[last.p]

\* The pairings of base and storage discipline the claim accepts.
C5_Accepted(T) ==
  \/ TypeTable[T].Base = "Object" /\ TypeTable[T].region_type \in {"Trace", "Arena"}
  \/ TypeTable[T].Base = "Cown" /\ TypeTable[T].region_type = "Cown"

\* C5: a declaration is accepted exactly when a plain-object base comes with
\* the Trace or Arena discipline, or an ownership-cell base with the Cown
\* discipline.  No Descriptor and no object of any other declaration exists.
C5_DeclarationCheck ==
  /\ DOMAIN descs = {DescAddr(T) : T \in {U \in Types : C5_Accepted(U)}}
  /\ \A o \in Ids : C5_Accepted(heap[o].T)
  /\ (last.op \in NewOps /\ ~C5_Accepted(last.T)) => ~last.ok
  /\ (last.op \in {"new", "new_alloc"} /\ C5_Accepted(last.T)) => last.ok
  /\ (last.op = "read_desc") => C5_Accepted(last.T)

C5_Witness ==
  /\ last.op = "new" /\ last.T = "Other" /\ ~last.ok
  /\ \E o \in Ids : heap[o].T = "Actor"
  /\ \E o \in Ids : heap[o].T = "Slot"

\* C6: a parent-relative construction of an ownership-cell type and every
\* array form are rejected, and the attempt allocates nothing, creates or
\* joins no region and registers nothing.
C6_DisallowedForms ==
  [][((last'.op \in ParentOps /\ TypeTable[last'.T].Base = "Cown")
        \/ last'.op \in ArrayOps) =>
       /\ ~last'.ok
       /\ ran' = <<>>
       /\ UNCHANGED <<heap, regionOf, cowns, allocated>>
     ]_vars

C6_Witness ==
  /\ last.op = "new_region" /\ last.T = "Actor" /\ ~last.ok
  /\ \E o \in Ids : heap[o].T = "Actor"
  /\ \E o \in Ids : regionOf[o] # 0

\* C7: every operator delete form leaves the storage, the descriptor
\* reference, the region membership, the registration and the allocator as
\* they were, and calls no trampoline.
C7_DeleteIsInert ==
  [][(last'.op \in DeleteForms) =>
       /\ UNCHANGED <<descs, heap, regionOf, cowns, allocated, epoch>>
       /\ ran' = <<>>
     ]_vars

C7_Witness ==
  /\ last.op = "delete_alloc"
  /\ last.T = "Actor"
  /\ Len(heap) = MaxObjects
  /\ cowns # {}

\* C8: whichever threads construct and whichever readers read, a Descriptor
\* always holds the value it was built with: no step writes it, a reader
\* always loads the same fields, and no object refers to a Descriptor that
\* is not initialised.
C8_DescriptorsNeverWritten ==
  /\ \A T \in Managed :
       /\ DescAddr(T) \in DOMAIN descs
       /\ descs[DescAddr(T)] = desc(T)
  /\ (last.op = "read_desc") => ret = desc(last.T)
  /\ \A o \in Ids :
       /\ heap[o].desc \in DOMAIN descs
       /\ descs[heap[o].desc].trace # nullptr
       /\ descs[heap[o].desc].size = heap[o].size

C8_Witness ==
  /\ last.op = "read_desc"
  /\ Len(heap) = MaxObjects
  /\ allocated["alloc_t1"] > 0 /\ allocated["alloc_t2"] > 0
  /\ heap[1].T # heap[2].T

\* The outgoing references the trace of o's type declares.
C9_Declared(o) ==
  IF TypeTable[heap[o].T].trace /\ heap[o].f # 0 THEN <<heap[o].f>> ELSE <<>>

\* C9: the trace trampoline forwards once to the trace of the object's own
\* type and adds to the stack exactly the references that trace declares
\* (none for V::trace); the destructor trampoline runs the destructor of the
\* object's own type once; neither touches anything else.
C9_TrampolinesForwardOnce ==
  /\ [](/\ (last.op = "gc_trace") =>
             /\ ret = last.st \o C9_Declared(last.o)
             /\ ran = << <<IF TypeTable[heap[last.o].T].trace
                             THEN "T::trace" ELSE "V::trace",
                           heap[last.o].T, last.o>> >>
        /\ (last.op = "gc_destructor") =>
             /\ ran = << <<"T::~T", heap[last.o].T, last.o>> >>
             /\ ~TypeTable[heap[last.o].T].trivially_destructible)
  /\ [][(last'.op \in TrampolineOps) =>
          UNCHANGED <<descs, heap, regionOf, cowns, allocated, epoch>>]_vars

C9_Witness ==
  /\ last.op = "gc_trace"
  /\ heap[last.o].f # 0
  /\ last.st # <<>>
  /\ Len(ret) = Len(last.st) + 1

\* C10 as stated: every construction through a routing entry point reads the
\* scheduler's allocation epoch.
C10_EveryConstructionReadsEpoch ==
  (last.op \in NewOps /\ last.ok) => "Scheduler::alloc_epoch" \in Calls(ran)

\* C10 amended: get_alloc_epoch returns the scheduler's current allocation
\* epoch unchanged and does not modify it; the construction entry points
\* neither read nor modify the epoch.
C10_EpochIsReadOnly ==
  [][/\ (last'.op = "get_alloc_epoch") =>
          /\ ret' = epoch
          /\ epoch' = epoch
          /\ Calls(ran') = {"Scheduler::alloc_epoch"}
     /\ (last'.op \in NewOps) =>
          /\ epoch' = epoch
          /\ "Scheduler::alloc_epoch" \notin Calls(ran')
    ]_vars

C10_Witness ==
  /\ last.op = "get_alloc_epoch"
  /\ ret = "EPOCH_B"
  /\ Len(heap) = MaxObjects

====
